---- MODULE Spec2Model ----
(***************************************************************************)
(* A model of the chat hub of phan-trong/golang_chat: the connection       *)
(* actors (Client.readPump / Client.writePump), the room hubs              *)
(* (Room.RunRoom / Room.subscribeToRoomMessages), the registry (WsServer)  *)
(* and the Redis backplane they publish to and subscribe on.               *)
(*                                                                         *)
(* Every goroutine is a process with a program counter; an unbuffered Go   *)
(* channel is a rendezvous (one action moves the sender and the receiver), *)
(* the buffered channel Client.send is a bounded queue.  Strings are       *)
(* sequences of tokens, so that concatenation is \o.                       *)
(***************************************************************************)
EXTENDS Integers, Sequences, FiniteSets, TLC

\* ------------------------------------------------------------- bounds
\* Room instances this process can come to create: the peers of one run
\* (Scripts, below) cause at most two, one each.
MaxRooms == 2
\* Capacity of Client.send (make(chan []byte, 256) in newClient), scaled down.
SendCap == 1
\* Payloads queued on client.send when writePump takes its turn (WireSpec).
MaxBurst == 3

\* ------------------------------------------------------------- identities
\* The connections that may attach to this process; a connection's ID string
\* (uuid.New() in newClient) is the one-token string <<c>>.
Clients == {"a", "b"}

\* A user id that belongs to no connection of this process.
UnknownId == <<"z">>

GetId(c) == <<c>>

GetName(c) == IF c = "a" THEN <<"alice">> ELSE <<"bob">>

\* The public room name the clients ask for.
Lobby == <<"lobby">>

RoomIds == 1..MaxRooms

\* Room.GetId: the string form of the room's uuid.
RoomGetId(r) == <<"room", ToString(r)>>

\* ------------------------------------------------------------- messages
SendMessageAction == <<"send-message">>
JoinRoomAction == <<"join-room">>
LeaveRoomAction == <<"leave-room">>
JoinRoomPrivateAction == <<"join-room-private">>
RoomJoinedAction == <<"room-joined">>

\* No room instance (a nil *Room returned by a lookup).
NilRoom == 0

\* A nil *Room in Message.Target, as opposed to the id string of a room.
NilTarget == <<>>

\* A nil models.User; a connection seen as a models.User (GetId, GetName).
NilUser == [id |-> <<>>, name |-> <<>>]

User(c) == [id |-> GetId(c), name |-> GetName(c)]

\* The zero Message: var message Message.
ZeroMessage == [action |-> <<>>, message |-> <<>>, target |-> NilTarget, sender |-> NilUser]

\* welcomeMessage = "%s joined the room", formatted with the newcomer's name.
WelcomeMessage(name) == name \o <<"joined the room">>

\* JSON values of an inbound frame: a string, a number, null, an object with
\* an "id" member.
JStr(s) == [t |-> "str", v |-> s]

JNum == [t |-> "num", v |-> <<>>]

JNull == [t |-> "null", v |-> <<>>]

JObj(id) == [t |-> "obj", v |-> id]

\* encoding/json storing a JSON value into a Go string field: a string is
\* stored, null leaves the field alone, anything else is a type error that
\* leaves the field alone and lets the decoder go on with the next member.
StoreString(old, j) == IF j.t = "str" THEN j.v ELSE old

\* ... into the *Room field Target: an object allocates a Room carrying its id.
StoreTarget(old, j) == IF j.t = "obj" THEN j.v ELSE old

TypeError(f) ==
    \/ f.action.t \notin {"str", "null"}
    \/ f.message.t \notin {"str", "null"}
    \/ f.target.t \notin {"obj", "null"}

\* Message.UnmarshalJSON under json.Unmarshal(jsonMessage, &message): bytes
\* that are not JSON leave the message zero; otherwise the members are stored
\* one by one into the message itself (through the embedded *Alias), and the
\* first type error is returned at the end.  message.Sender is only set on
\* success, to the Client decoded from the frame's "sender" member.
Unmarshal(f) ==
    IF ~f.syntax
    THEN [err |-> TRUE, msg |-> ZeroMessage]
    ELSE [err |-> TypeError(f),
          msg |-> [action |-> StoreString(<<>>, f.action),
                   message |-> StoreString(<<>>, f.message),
                   target |-> StoreTarget(NilTarget, f.target),
                   sender |-> IF TypeError(f) THEN NilUser ELSE f.sender]]

\* Message.encode for the messages the server builds: the target room is
\* marshalled as its exported fields, the sender as id and name.
Encode(action, text, target, sender) ==
    [action |-> action, message |-> text, target |-> target, sender |-> sender]

\* json.Marshal of a message, as the bytes that travel: the text of a chat
\* message is copied as it is (encoding/json escapes quotes, control
\* characters, <, > and &, and nothing else).
Marshal(p) ==
    <<"{">> \o p.action \o <<",">> \o p.message \o <<",">>
            \o p.target.id \o p.target.name \o <<IF p.target.private THEN "true" ELSE "false">>
            \o <<",">> \o p.sender.id \o p.sender.name \o <<"}">>

\* newline = []byte{'*'}: what writePump puts between the payloads of a frame.
Newline == <<"*">>

RECURSIVE WriteFrame(_)
\* The frame writePump builds from the payloads it takes off client.send:
\* w.Write(message), then w.Write(newline) and w.Write(<-client.send) for
\* every payload queued.
WriteFrame(q) ==
    IF Len(q) = 0 THEN <<>>
    ELSE IF Len(q) = 1 THEN Marshal(q[1])
    ELSE Marshal(q[1]) \o Newline \o WriteFrame(Tail(q))

RECURSIVE SplitFrame(_)
\* The bundled browser client's data.split('*'): the pieces of a frame
\* between the delimiters, in order.
SplitFrame(bytes) ==
    IF \A i \in 1..Len(bytes) : <<bytes[i]>> # Newline
    THEN <<bytes>>
    ELSE LET i == CHOOSE k \in 1..Len(bytes) :
                      /\ <<bytes[k]>> = Newline
                      /\ \A j \in 1..(k - 1) : <<bytes[j]>> # Newline
         IN <<SubSeq(bytes, 1, i - 1)>> \o SplitFrame(SubSeq(bytes, i + 1, Len(bytes)))

\* ------------------------------------------------------------- peers
\* What the peers of one run do.  Each peer's events, in order: "connect" (the
\* upgrade request), the kinds of the frames it sends, "close" (it hangs up,
\* or stops answering pings); and the peers whose socket may fail on a write.
Peers(a, b, failing) ==
    [events |-> [c \in Clients |-> IF c = "a" THEN a ELSE b], failing |-> failing]

Scripts ==
    {Peers(<<"connect", "join", "send">>, <<"connect", "join", "close">>, {}),
     Peers(<<"connect", "join", "leave", "join">>, <<"connect", "join">>, {}),
     Peers(<<"connect", "join">>, <<"connect", "join">>, {"a"}),
     Peers(<<"connect", "private">>, <<"connect", "private">>, {}),
     Peers(<<"connect", "private-unknown", "join">>, <<"connect">>, {}),
     Peers(<<"connect", "not-json", "join">>, <<>>, {}),
     Peers(<<"connect", "unknown-action", "join">>, <<>>, {}),
     Peers(<<"connect", "wrong-type", "join">>, <<>>, {}),
     Peers(<<"connect", "private">>, <<"connect", "join-private">>, {}),
     Peers(<<"connect", "send-unknown", "send-nil">>, <<"connect">>, {}),
     Peers(<<"connect", "join", "join">>, <<"connect">>, {}),
     Peers(<<"connect", "join", "leave-by-name">>, <<"connect">>, {}),
     Peers(<<"connect", "join", "send-forged">>, <<"connect", "private-forged">>, {})}

\* ------------------------------------------------------------- state
VARIABLES
    crashed,      \* "no", or the runtime error that ended the process
    inbox,        \* the events each peer is still to produce
    past,         \* history: the events of each peer the process has taken up
    failing,      \* the peers whose socket may fail on a write
    torn,         \* history: what each connection's disconnect has done, counted
    swsPc,        \* ServerWs handler of each connection
    rpc,          \* Client.readPump position
    cur,          \* Client.readPump locals
    wpc,          \* Client.writePump position
    send,         \* Client.send: the buffered payloads
    sendClosed,   \* close(client.send) has run
    clientRooms,  \* Client.rooms
    srvClients,   \* WsServer.clients
    rooms,        \* WsServer.rooms: the Room instances created, by instance
    roomClients,  \* Room.clients
    loopPc,       \* Room.RunRoom position
    loopCur,      \* Room.RunRoom locals while notifyClientJoined runs
    subPc,        \* Room.subscribeToRoomMessages position
    subCur,       \* Room.subscribeToRoomMessages locals while it fans out
    topic,        \* payloads the backplane holds for each room's subscription
    left,         \* history: the connections whose leave-room each room has processed
    general       \* invites published on the general topic

vars == <<crashed, inbox, past, failing, torn, swsPc, rpc, cur, wpc, send, sendClosed, clientRooms,
          srvClients, rooms, roomClients, loopPc, loopCur, subPc, subCur, topic,
          left, general>>

clientVars == <<swsPc, rpc, cur, wpc, send, sendClosed, clientRooms>>

roomVars == <<rooms, roomClients, loopPc, loopCur, subPc, subCur, topic, left>>

NoCur == [room |-> NilRoom, name |-> <<>>, sender |-> NilUser, msg |-> ZeroMessage, todo |-> {}]

\* Nothing of disconnect has run: no wsServer.unregister <- client, no
\* room.unregister <- client for any room, no close(client.send).
NotTorn == [registry |-> 0, rooms |-> [r \in RoomIds |-> 0], closes |-> 0]

NoLoopCur == [client |-> "none", todo |-> {}]

\* (before is history: the members removed since the range started)
NoSubCur == [msg |-> ZeroMessage, todo |-> {}, before |-> {}]

Init ==
    /\ crashed = "no"
    /\ \E s \in Scripts : inbox = s.events /\ failing = s.failing
    /\ past = [c \in Clients |-> <<>>]
    /\ torn = [c \in Clients |-> NotTorn]
    /\ swsPc = [c \in Clients |-> "idle"]
    /\ rpc = [c \in Clients |-> "off"]
    /\ cur = [c \in Clients |-> NoCur]
    /\ wpc = [c \in Clients |-> "off"]
    /\ send = [c \in Clients |-> <<>>]
    /\ sendClosed = [c \in Clients |-> FALSE]
    /\ clientRooms = [c \in Clients |-> {}]
    /\ srvClients = {}
    /\ rooms = <<>>
    /\ roomClients = [r \in RoomIds |-> {}]
    /\ loopPc = [r \in RoomIds |-> "off"]
    /\ loopCur = [r \in RoomIds |-> NoLoopCur]
    /\ subPc = [r \in RoomIds |-> "off"]
    /\ subCur = [r \in RoomIds |-> NoSubCur]
    /\ topic = [r \in RoomIds |-> <<>>]
    /\ left = [r \in RoomIds |-> {}]
    /\ general = {}

Live == crashed = "no"

Created == 1..Len(rooms)

\* ------------------------------------------------------------- registry
\* WsServer.findRoomByName: the rooms of this process that bear the name.
FindRoomByName(name) == {r \in Created : rooms[r].name = name}

\* WsServer.findRoomById: the rooms of this process that bear the id.
FindRoomById(id) == {r \in Created : RoomGetId(r) = id}

\* WsServer.findUserByID: the connections attached to this process with the id.
FindUserByID(id) == {d \in srvClients : GetId(d) = id}

\* The exported fields of a Room, as Message.encode marshals a target.
RoomJson(r) == [id |-> RoomGetId(r), name |-> rooms[r].name, private |-> rooms[r].private]

\* config.Redis.Publish(ctx, name, payload): the payload reaches every
\* subscription on the topic that is established.
Publish(t, name, payload) ==
    [r \in RoomIds |->
        IF r \in Created /\ rooms[r].name = name /\ subPc[r] \in {"recv", "fanout"}
        THEN Append(t[r], payload)
        ELSE t[r]]

\* ------------------------------------------------------------- ServerWs
\* ServerWs up to its last statement: newClient, go writePump, go readPump.
ServerWs(c) ==
    /\ Live
    /\ swsPc[c] = "idle"
    /\ inbox[c] # <<>>
    /\ Head(inbox[c]) = "connect"
    /\ inbox' = [inbox EXCEPT ![c] = Tail(@)]
    /\ past' = [past EXCEPT ![c] = Append(@, Head(inbox[c]))]
    /\ swsPc' = [swsPc EXCEPT ![c] = "register"]
    /\ rpc' = [rpc EXCEPT ![c] = "read"]
    /\ wpc' = [wpc EXCEPT ![c] = "run"]
    /\ UNCHANGED <<crashed, failing, torn, cur, send, sendClosed, clientRooms, srvClients,
                   general>>
    /\ UNCHANGED roomVars

\* wsServer.register <- client, received by the registry's loop.
RegistryRegister(c) ==
    /\ Live
    /\ swsPc[c] = "register"
    /\ swsPc' = [swsPc EXCEPT ![c] = "done"]
    /\ srvClients' = srvClients \cup {c}
    /\ UNCHANGED <<crashed, inbox, past, failing, torn, rpc, cur, wpc, send, sendClosed, clientRooms,
                   general>>
    /\ UNCHANGED roomVars

\* ------------------------------------------------------------- inbound frames
Frame(action, message, target) ==
    [syntax |-> TRUE, action |-> action, message |-> message, target |-> target,
     sender |-> NilUser]

\* A frame whose "sender" member names another connection of this process.
Forged(c, f) == {[f EXCEPT !.sender = User(d)] : d \in Clients \ {c}}

\* The frames a peer can send, by kind.  join, leave-by-name, send and
\* private are what the browser client sends (joinRoom, leaveRoom,
\* sendMessage, joinPrivateRoom), for the rooms and users this process has;
\* leave is a leave-room that carries the room's id; the others are
\* a private join for a user that is not connected here, bytes that are not
\* JSON, an action outside the closed set, a join-room whose message member
\* is a number, a join-room that names a private room, and a send-message
\* whose target is the id of no room or is absent, and a send-message and a
\* private join that claim another connection as their sender.
FramesOfKind(c, kind) ==
    CASE kind = "join" -> {Frame(JStr(JoinRoomAction), JStr(Lobby), JNull)}
      [] kind = "leave" ->
            {Frame(JStr(LeaveRoomAction), JStr(RoomGetId(r)), JNull) : r \in Created}
      [] kind = "send" ->
            {Frame(JStr(SendMessageAction), JStr(<<"hi">>), JObj(RoomGetId(r))) : r \in Created}
      [] kind = "private" ->
            {Frame(JStr(JoinRoomPrivateAction), JStr(GetId(d)), JNull) : d \in Clients \ {c}}
      [] kind = "private-unknown" -> {Frame(JStr(JoinRoomPrivateAction), JStr(UnknownId), JNull)}
      [] kind = "not-json" -> {[Frame(JNull, JNull, JNull) EXCEPT !.syntax = FALSE]}
      [] kind = "unknown-action" -> {Frame(JStr(<<"shout">>), JStr(Lobby), JNull)}
      [] kind = "wrong-type" -> {Frame(JStr(JoinRoomAction), JNum, JNull)}
      [] kind = "send-unknown" ->
            {Frame(JStr(SendMessageAction), JStr(<<"hi">>), JObj(UnknownId))}
      [] kind = "send-nil" -> {Frame(JStr(SendMessageAction), JStr(<<"hi">>), JNull)}
      [] kind = "join-private" ->
            {Frame(JStr(JoinRoomAction), JStr(rooms[r].name), JNull) :
                r \in {q \in Created : rooms[q].private}}
      [] kind = "leave-by-name" ->
            {Frame(JStr(LeaveRoomAction), JStr(rooms[r].name), JNull) : r \in Created}
      [] kind = "send-forged" ->
            UNION {Forged(c, Frame(JStr(SendMessageAction), JStr(<<"hi">>), JObj(RoomGetId(r)))) :
                      r \in Created}
      [] kind = "private-forged" ->
            UNION {Forged(c, Frame(JStr(JoinRoomPrivateAction), JStr(GetId(d)), JNull)) :
                      d \in Clients \ {c}}
      [] OTHER -> {}

Kinds == {"join", "leave", "send", "private", "private-unknown", "not-json",
          "unknown-action", "wrong-type", "join-private", "send-unknown",
          "send-nil", "leave-by-name", "send-forged", "private-forged"}

Frames(c) == UNION {FramesOfKind(c, kind) : kind \in Kinds}

\* The frames readPump's ReadMessage can return next: those of the kind the
\* peer sends next.
Arriving(c) == IF inbox[c] = <<>> THEN {} ELSE FramesOfKind(c, Head(inbox[c]))

\* ------------------------------------------------------------- Client.readPump
\* inviteTargetUser: the invite published on the general topic.
Invite(c, target, r) == Encode(JoinRoomPrivateAction, target.id, RoomJson(r), User(c))

\* Client.joinRoom without "if !client.isInRoom(room)".
JoinResolvedAgain(c, r, private, sender, roomJson) ==
    IF sender = NilUser /\ private
    THEN /\ rpc' = [rpc EXCEPT ![c] = "read"]
         /\ cur' = [cur EXCEPT ![c] = NoCur]
         /\ UNCHANGED <<clientRooms, general>>
    ELSE /\ clientRooms' = [clientRooms EXCEPT ![c] = @ \cup {r}]
         /\ rpc' = [rpc EXCEPT ![c] = "reg"]
         /\ cur' = [cur EXCEPT ![c] = [NoCur EXCEPT !.room = r, !.sender = sender]]
         /\ UNCHANGED general

\* Client.joinRoom without "if sender == nil && room.Private { return nil }".
JoinResolvedOpen(c, r, private, sender, roomJson) ==
    IF r \in clientRooms[c]
    THEN /\ rpc' = [rpc EXCEPT ![c] = "read"]
         /\ cur' = [cur EXCEPT ![c] = NoCur]
         /\ general' = IF sender = NilUser THEN general
                        ELSE general \cup {Encode(JoinRoomPrivateAction, sender.id, roomJson, User(c))}
         /\ UNCHANGED clientRooms
    ELSE /\ clientRooms' = [clientRooms EXCEPT ![c] = @ \cup {r}]
         /\ rpc' = [rpc EXCEPT ![c] = "reg"]
         /\ cur' = [cur EXCEPT ![c] = [NoCur EXCEPT !.room = r, !.sender = sender]]
         /\ UNCHANGED general

\* Client.joinRoom from the private check on, the room being resolved:
\* a public join of a private room returns nil; a member returns the room
\* (and handleJoinRoomPrivateMessage then invites); otherwise the connection
\* records the room and goes on to send itself on room.register.
JoinResolved(c, r, private, sender, roomJson) ==
    IF sender = NilUser /\ private
    THEN /\ rpc' = [rpc EXCEPT ![c] = "read"]
         /\ cur' = [cur EXCEPT ![c] = NoCur]
         /\ UNCHANGED <<clientRooms, general>>
    ELSE IF r \in clientRooms[c]
    THEN /\ rpc' = [rpc EXCEPT ![c] = "read"]
         /\ cur' = [cur EXCEPT ![c] = NoCur]
         /\ general' = IF sender = NilUser THEN general
                        ELSE general \cup {Encode(JoinRoomPrivateAction, sender.id, roomJson, User(c))}
         /\ UNCHANGED clientRooms
    ELSE /\ clientRooms' = [clientRooms EXCEPT ![c] = @ \cup {r}]
         /\ rpc' = [rpc EXCEPT ![c] = "reg"]
         /\ cur' = [cur EXCEPT ![c] = [NoCur EXCEPT !.room = r, !.sender = sender]]
         /\ UNCHANGED general

\* Client.joinRoom up to the lookup: findRoomByName, and when it finds nothing
\* the connection goes on to createRoom in a later step.
JoinRoom(c, roomName, sender) ==
    IF FindRoomByName(roomName) = {}
    THEN /\ rpc' = [rpc EXCEPT ![c] = "create"]
         /\ cur' = [cur EXCEPT ![c] = [NoCur EXCEPT !.name = roomName, !.sender = sender]]
         /\ UNCHANGED <<clientRooms, general>>
    ELSE \E r \in FindRoomByName(roomName) :
            JoinResolved(c, r, rooms[r].private, sender, RoomJson(r))

HandleJoinRoomMessage(c, m) ==
    /\ JoinRoom(c, m.message, NilUser)
    /\ UNCHANGED crashed

\* roomName := message.Message + client.ID.String()
PrivateRoomName(targetId, c) == targetId \o GetId(c)

\* handleJoinRoomPrivateMessage without its "if target == nil { return }".
HandleJoinRoomPrivateMessageUnchecked(c, m) ==
    /\ JoinRoom(c, PrivateRoomName(m.message, c), [id |-> m.message, name |-> <<>>])
    /\ UNCHANGED crashed

\* handleJoinRoomPrivateMessage: the target is looked up by the id in
\* message.Message; an unknown id ends the handler.
HandleJoinRoomPrivateMessage(c, m) ==
    /\ IF FindUserByID(m.message) = {}
       THEN UNCHANGED <<rpc, cur, clientRooms, general>>
       ELSE \E t \in FindUserByID(m.message) :
               JoinRoom(c, PrivateRoomName(m.message, c), User(t))
    /\ UNCHANGED crashed

\* handleLeaveRoomMessage without "delete(client.rooms, room)".
HandleLeaveRoomMessageKeeps(c, m) ==
    /\ IF FindRoomById(m.message) = {}
       THEN UNCHANGED <<rpc, cur, clientRooms>>
       ELSE \E r \in FindRoomById(m.message) :
               /\ rpc' = [rpc EXCEPT ![c] = "unreg"]
               /\ cur' = [cur EXCEPT ![c] = [NoCur EXCEPT !.room = r]]
               /\ UNCHANGED clientRooms
    /\ UNCHANGED <<crashed, general>>

\* handleLeaveRoomMessage: findRoomById(message.Message), delete from
\* client.rooms, room.unregister <- client.
HandleLeaveRoomMessage(c, m) ==
    /\ IF FindRoomById(m.message) = {}
       THEN UNCHANGED <<rpc, cur, clientRooms>>
       ELSE \E r \in FindRoomById(m.message) :
               /\ clientRooms' = [clientRooms EXCEPT ![c] = @ \ {r}]
               /\ rpc' = [rpc EXCEPT ![c] = "unreg"]
               /\ cur' = [cur EXCEPT ![c] = [NoCur EXCEPT !.room = r]]
    /\ UNCHANGED <<crashed, general>>

\* The send-message case: message.Target.GetId() dereferences the target.
HandleSendMessage(c, m) ==
    IF m.target = NilTarget
    THEN /\ crashed' = "nil-target"
         /\ UNCHANGED <<rpc, cur, clientRooms, general>>
    ELSE /\ IF FindRoomById(m.target) = {}
            THEN UNCHANGED <<rpc, cur>>
            ELSE \E r \in FindRoomById(m.target) :
                    /\ rpc' = [rpc EXCEPT ![c] = "bcast"]
                    /\ cur' = [cur EXCEPT ![c] = [NoCur EXCEPT !.room = r, !.msg = m]]
         /\ UNCHANGED <<crashed, clientRooms, general>>

\* handleNewMessage without "message.Sender = client".
HandleNewMessageUnstamped(c, f) ==
    LET m == Unmarshal(f).msg IN
    CASE m.action = SendMessageAction -> HandleSendMessage(c, m)
      [] m.action = JoinRoomAction -> HandleJoinRoomMessage(c, m)
      [] m.action = LeaveRoomAction -> HandleLeaveRoomMessage(c, m)
      [] m.action = JoinRoomPrivateAction -> HandleJoinRoomPrivateMessage(c, m)
      [] OTHER -> UNCHANGED <<crashed, rpc, cur, clientRooms, general>>

\* Client.handleNewMessage: decode (an error is logged and ignored), stamp the
\* sender, dispatch on the action.
HandleNewMessage(c, f) ==
    LET m == [Unmarshal(f).msg EXCEPT !.sender = User(c)] IN
    CASE m.action = SendMessageAction -> HandleSendMessage(c, m)
      [] m.action = JoinRoomAction -> HandleJoinRoomMessage(c, m)
      [] m.action = LeaveRoomAction -> HandleLeaveRoomMessage(c, m)
      [] m.action = JoinRoomPrivateAction -> HandleJoinRoomPrivateMessage(c, m)
      [] OTHER -> UNCHANGED <<crashed, rpc, cur, clientRooms, general>>

\* The socket is closed once writePump has returned or disconnect has run.
ConnClosed(c) == wpc[c] = "done" \/ rpc[c] = "done"

\* One turn of readPump's loop: ReadMessage returns a frame.
ReadMessage(c, f) ==
    /\ Live
    /\ rpc[c] = "read"
    /\ ~ConnClosed(c)
    /\ inbox[c] # <<>>
    /\ f \in FramesOfKind(c, Head(inbox[c]))
    /\ inbox' = [inbox EXCEPT ![c] = Tail(@)]
    /\ past' = [past EXCEPT ![c] = Append(@, Head(inbox[c]))]
    /\ HandleNewMessage(c, f)
    /\ UNCHANGED <<failing, torn, swsPc, wpc, send, sendClosed, srvClients>>
    /\ UNCHANGED roomVars

\* WsServer.createRoom, called by joinRoom after a lookup that found nothing:
\* a new Room is registered and its loops are started; joinRoom goes on.
CreateRoom(c) ==
    LET r == Len(rooms) + 1
        room == [name |-> cur[c].name, private |-> cur[c].sender # NilUser]
    IN
    /\ Live
    /\ rpc[c] = "create"
    /\ rooms' = Append(rooms, room)
    /\ loopPc' = [loopPc EXCEPT ![r] = "select"]
    /\ subPc' = [subPc EXCEPT ![r] = "init"]
    /\ JoinResolved(c, r, room.private, cur[c].sender,
                    [id |-> RoomGetId(r), name |-> room.name, private |-> room.private])
    /\ UNCHANGED <<crashed, inbox, past, failing, torn, swsPc, wpc, send, sendClosed, srvClients,
                   roomClients, loopCur, subCur, topic, left>>

\* readPump's ReadMessage returns an error (the peer hung up, the read
\* deadline passed, or the socket was closed under it): the loop ends and
\* disconnect starts with wsServer.unregister <- client.
PeerClosed(c) == inbox[c] # <<>> /\ Head(inbox[c]) = "close"

ReadError(c) ==
    /\ Live
    /\ rpc[c] = "read"
    /\ PeerClosed(c) \/ ConnClosed(c)
    /\ inbox' = [inbox EXCEPT ![c] = IF PeerClosed(c) THEN Tail(@) ELSE @]
    /\ past' = [past EXCEPT ![c] = IF PeerClosed(c) THEN Append(@, "close") ELSE @]
    /\ rpc' = [rpc EXCEPT ![c] = "disc"]
    /\ UNCHANGED <<crashed, failing, torn, swsPc, cur, wpc, send, sendClosed, clientRooms,
                   srvClients, general>>
    /\ UNCHANGED roomVars

\* Client.notifyRoomJoined, then the return to the caller: room-joined is
\* queued on the connection's own send channel; a private join then invites
\* the target (inviteTargetUser) before readPump reads on.
NotifyRoomJoined(c) ==
    LET r == cur[c].room IN
    /\ Live
    /\ rpc[c] = "notify"
    /\ Len(send[c]) < SendCap
    /\ send' = [send EXCEPT ![c] = Append(@, Encode(RoomJoinedAction, <<>>, RoomJson(r), cur[c].sender))]
    /\ general' = IF cur[c].sender = NilUser THEN general
                   ELSE general \cup {Invite(c, cur[c].sender, r)}
    /\ rpc' = [rpc EXCEPT ![c] = "read"]
    /\ cur' = [cur EXCEPT ![c] = NoCur]
    /\ UNCHANGED <<crashed, inbox, past, failing, torn, swsPc, wpc, sendClosed, clientRooms, srvClients>>
    /\ UNCHANGED roomVars

\* disconnect: wsServer.unregister <- client, received by the registry's loop;
\* disconnect goes on to range over client.rooms.
RegistryUnregister(c) ==
    /\ Live
    /\ rpc[c] = "disc"
    /\ srvClients' = srvClients \ {c}
    /\ rpc' = [rpc EXCEPT ![c] = IF clientRooms[c] = {} THEN "close" ELSE "discRooms"]
    /\ cur' = [cur EXCEPT ![c] = [NoCur EXCEPT !.todo = clientRooms[c]]]
    /\ torn' = [torn EXCEPT ![c].registry = @ + 1]
    /\ UNCHANGED <<crashed, inbox, past, failing, swsPc, wpc, send, sendClosed, clientRooms, general>>
    /\ UNCHANGED roomVars

\* disconnect entered again after it has run: close(client.send) a second time.
CloseSendAgain(c) ==
    /\ Live
    /\ rpc[c] = "close"
    /\ crashed' = IF sendClosed[c] THEN "close-of-closed" ELSE crashed
    /\ sendClosed' = [sendClosed EXCEPT ![c] = TRUE]
    /\ torn' = [torn EXCEPT ![c].closes = @ + 1]
    /\ UNCHANGED <<inbox, past, failing, swsPc, rpc, cur, wpc, send, clientRooms, srvClients,
                   general>>
    /\ UNCHANGED roomVars

\* disconnect: close(client.send) and client.conn.Close().
CloseSend(c) ==
    /\ Live
    /\ rpc[c] = "close"
    /\ crashed' = IF sendClosed[c] THEN "close-of-closed" ELSE crashed
    /\ sendClosed' = [sendClosed EXCEPT ![c] = TRUE]
    /\ rpc' = [rpc EXCEPT ![c] = "done"]
    /\ torn' = [torn EXCEPT ![c].closes = @ + 1]
    /\ UNCHANGED <<inbox, past, failing, swsPc, cur, wpc, send, clientRooms, srvClients, general>>
    /\ UNCHANGED roomVars

\* ------------------------------------------------------------- Client.writePump
\* One turn on client.send: the payload received and every payload queued at
\* that instant are written as one frame.
WritePump(c) ==
    /\ Live
    /\ wpc[c] = "run"
    /\ send[c] # <<>>
    /\ send' = [send EXCEPT ![c] = <<>>]
    /\ UNCHANGED <<crashed, inbox, past, failing, torn, swsPc, rpc, cur, wpc, sendClosed, clientRooms,
                   srvClients, general>>
    /\ UNCHANGED roomVars

\* The receive on the closed, drained channel: a close frame, and return.
WritePumpClosed(c) ==
    /\ Live
    /\ wpc[c] = "run"
    /\ send[c] = <<>>
    /\ sendClosed[c]
    /\ wpc' = [wpc EXCEPT ![c] = "done"]
    /\ UNCHANGED <<crashed, inbox, past, failing, torn, swsPc, rpc, cur, send, sendClosed, clientRooms,
                   srvClients, general>>
    /\ UNCHANGED roomVars

\* A write fails and writePump returns: the ping (nothing was received), the
\* NextWriter (one payload was received), or the Close of the frame (all were).
WritePumpError(c, k) ==
    /\ Live
    /\ wpc[c] = "run"
    /\ c \in failing
    /\ k \in {0, 1, Len(send[c])}
    /\ k <= Len(send[c])
    /\ send' = [send EXCEPT ![c] = SubSeq(@, k + 1, Len(@))]
    /\ wpc' = [wpc EXCEPT ![c] = "done"]
    /\ UNCHANGED <<crashed, inbox, past, failing, torn, swsPc, rpc, cur, sendClosed, clientRooms,
                   srvClients, general>>
    /\ UNCHANGED roomVars

\* ------------------------------------------------------------- Room
\* The system notice of notifyClientJoined, encoded.
JoinNotice(r, c) == Encode(SendMessageAction, WelcomeMessage(GetName(c)), RoomJson(r), NilUser)

\* message.encode() of an inbound message: the target decoded from the frame
\* carries the id only.
EncodeInbound(m) ==
    Encode(m.action, m.message, [id |-> m.target, name |-> <<>>, private |-> FALSE], m.sender)

\* RunRoom writes room.clients while subscribeToRoomMessages may be ranging
\* over it: the two goroutines share the map without synchronisation.  When
\* the range is under way the write is a data race, and the model takes every
\* outcome: the range observes the write, it does not, or the runtime stops
\* the process ("concurrent map iteration and map write").
RaceOutcomes(r) == IF subPc[r] = "fanout" THEN {"seen", "unseen", "fatal"} ELSE {"quiet"}

WriteClients(r, c, add) ==
    \E o \in RaceOutcomes(r) :
        LET todo == IF o # "seen" THEN subCur[r].todo
                    ELSE IF add THEN subCur[r].todo \cup {c}
                    ELSE subCur[r].todo \ {c}
        IN
        /\ roomClients' = [roomClients EXCEPT ![r] = IF add THEN @ \cup {c} ELSE @ \ {c}]
        /\ crashed' = IF o = "fatal" THEN "map-race" ELSE crashed
        /\ IF subPc[r] = "fanout" /\ todo = {}
           THEN /\ subPc' = [subPc EXCEPT ![r] = "recv"]
                /\ subCur' = [subCur EXCEPT ![r] = NoSubCur]
           ELSE /\ subCur' = [subCur EXCEPT ![r].todo = todo,
                                             ![r].before = IF add \/ subPc[r] # "fanout"
                                                           THEN @ ELSE @ \cup {c}]
                /\ UNCHANGED subPc

\* registerClientInRoom once the notice is out (or for a private room):
\* publishRoomMessage of the notice, then room.clients[client] = true.
FinishRegister(r, c) ==
    /\ topic' = IF rooms[r].private THEN topic
                 ELSE Publish(topic, rooms[r].name, JoinNotice(r, c))
    /\ WriteClients(r, c, TRUE)
    /\ left' = [left EXCEPT ![r] = @ \ {c}]

\* case client := <-room.register: the joining connection is released, and
\* registerClientInRoom starts; with members to notify, the loop goes into
\* broadcastToClientsInRoom.
RoomRegister(r, c) ==
    /\ Live
    /\ loopPc[r] = "select"
    /\ rpc[c] = "reg"
    /\ cur[c].room = r
    /\ rpc' = [rpc EXCEPT ![c] = "notify"]
    /\ IF rooms[r].private \/ roomClients[r] = {}
       THEN /\ FinishRegister(r, c)
            /\ UNCHANGED <<loopPc, loopCur>>
       ELSE /\ loopPc' = [loopPc EXCEPT ![r] = "notify"]
            /\ loopCur' = [loopCur EXCEPT ![r] = [client |-> c, todo |-> roomClients[r]]]
            /\ UNCHANGED <<crashed, roomClients, subPc, subCur, topic, left>>
    /\ UNCHANGED <<inbox, past, failing, torn, swsPc, cur, wpc, send, sendClosed, clientRooms, srvClients,
                   rooms, general>>

\* notifyClientJoined's broadcastToClientsInRoom, one member at a time:
\* client.send <- message blocks while the queue is full and panics when it
\* is closed; after the last member the register is finished.
NotifyClientJoined(r, d) ==
    LET c == loopCur[r].client IN
    /\ Live
    /\ loopPc[r] = "notify"
    /\ d \in loopCur[r].todo
    /\ IF sendClosed[d]
       THEN /\ crashed' = "send-on-closed"
            /\ UNCHANGED <<send, roomClients, loopPc, loopCur, subPc, subCur, topic, left>>
       ELSE /\ Len(send[d]) < SendCap
            /\ send' = [send EXCEPT ![d] = Append(@, JoinNotice(r, c))]
            /\ IF loopCur[r].todo = {d}
               THEN /\ FinishRegister(r, c)
                    /\ loopPc' = [loopPc EXCEPT ![r] = "select"]
                    /\ loopCur' = [loopCur EXCEPT ![r] = NoLoopCur]
               ELSE /\ loopCur' = [loopCur EXCEPT ![r].todo = @ \ {d}]
                    /\ UNCHANGED <<crashed, roomClients, loopPc, subPc, subCur, topic, left>>
    /\ UNCHANGED <<inbox, past, failing, torn, swsPc, rpc, cur, wpc, sendClosed, clientRooms, srvClients,
                   rooms, general>>

\* unregisterClientInRoom.
UnregisterClientInRoom(r, c) ==
    IF c \in roomClients[r]
    THEN WriteClients(r, c, FALSE)
    ELSE UNCHANGED <<crashed, roomClients, subPc, subCur>>

\* case client := <-room.unregister, the sender being handleLeaveRoomMessage.
RoomUnregisterLeave(r, c) ==
    /\ Live
    /\ loopPc[r] = "select"
    /\ rpc[c] = "unreg"
    /\ cur[c].room = r
    /\ rpc' = [rpc EXCEPT ![c] = "read"]
    /\ cur' = [cur EXCEPT ![c] = NoCur]
    /\ UnregisterClientInRoom(r, c)
    /\ left' = [left EXCEPT ![r] = @ \cup {c}]
    /\ UNCHANGED <<inbox, past, failing, torn, swsPc, wpc, send, sendClosed, clientRooms, srvClients,
                   rooms, loopPc, loopCur, topic, general>>

\* case client := <-room.unregister, the sender being disconnect's range over
\* client.rooms; after the last room disconnect goes on to close the queue.
RoomUnregisterDisconnect(r, c) ==
    /\ Live
    /\ loopPc[r] = "select"
    /\ rpc[c] = "discRooms"
    /\ r \in cur[c].todo
    /\ rpc' = [rpc EXCEPT ![c] = IF cur[c].todo = {r} THEN "close" ELSE "discRooms"]
    /\ cur' = [cur EXCEPT ![c].todo = @ \ {r}]
    /\ UnregisterClientInRoom(r, c)
    /\ torn' = [torn EXCEPT ![c].rooms[r] = @ + 1]
    /\ UNCHANGED <<inbox, past, failing, swsPc, wpc, send, sendClosed, clientRooms, srvClients,
                   rooms, loopPc, loopCur, topic, left, general>>

\* case message := <-room.broadcast: publishRoomMessage(message.encode()).
RoomBroadcast(r, c) ==
    /\ Live
    /\ loopPc[r] = "select"
    /\ rpc[c] = "bcast"
    /\ cur[c].room = r
    /\ topic' = Publish(topic, rooms[r].name, EncodeInbound(cur[c].msg))
    /\ rpc' = [rpc EXCEPT ![c] = "read"]
    /\ cur' = [cur EXCEPT ![c] = NoCur]
    /\ UNCHANGED <<crashed, inbox, past, failing, torn, swsPc, wpc, send, sendClosed, clientRooms,
                   srvClients, rooms, roomClients, loopPc, loopCur, subPc, subCur,
                   left, general>>

\* subscribeToRoomMessages: config.Redis.Subscribe(ctx, room.GetName()).
Subscribe(r) ==
    /\ Live
    /\ subPc[r] = "init"
    /\ subPc' = [subPc EXCEPT ![r] = "recv"]
    /\ UNCHANGED <<crashed, inbox, past, failing, torn, general, srvClients, rooms, roomClients, loopPc,
                   loopCur, subCur, topic, left>>
    /\ UNCHANGED clientVars

\* for msg := range ch: a payload arrives and the range over room.clients starts.
SubscriptionReceive(r) ==
    /\ Live
    /\ subPc[r] = "recv"
    /\ topic[r] # <<>>
    /\ topic' = [topic EXCEPT ![r] = Tail(@)]
    /\ IF roomClients[r] = {}
       THEN UNCHANGED <<subPc, subCur>>
       ELSE /\ subPc' = [subPc EXCEPT ![r] = "fanout"]
            /\ subCur' = [subCur EXCEPT ![r] = [msg |-> Head(topic[r]), todo |-> roomClients[r],
                                                 before |-> {}]]
    /\ UNCHANGED <<crashed, inbox, past, failing, torn, general, srvClients, rooms, roomClients, loopPc,
                   loopCur, left>>
    /\ UNCHANGED clientVars

\* broadcastToClientsInRoom from the subscription loop, one member at a time.
BroadcastToClientsInRoom(r, d) ==
    /\ Live
    /\ subPc[r] = "fanout"
    /\ d \in subCur[r].todo
    /\ IF sendClosed[d]
       THEN /\ crashed' = "send-on-closed"
            /\ UNCHANGED <<send, subPc, subCur>>
       ELSE /\ Len(send[d]) < SendCap
            /\ send' = [send EXCEPT ![d] = Append(@, subCur[r].msg)]
            /\ IF subCur[r].todo = {d}
               THEN /\ subPc' = [subPc EXCEPT ![r] = "recv"]
                    /\ subCur' = [subCur EXCEPT ![r] = NoSubCur]
               ELSE /\ subCur' = [subCur EXCEPT ![r].todo = @ \ {d}]
                    /\ UNCHANGED subPc
            /\ UNCHANGED crashed
    /\ UNCHANGED <<inbox, past, failing, torn, swsPc, rpc, cur, wpc, sendClosed, clientRooms, srvClients,
                   rooms, roomClients, loopPc, loopCur, topic, left, general>>

\* ------------------------------------------------------------- specification
Next ==
    \/ \E c \in Clients : ServerWs(c)
    \/ \E c \in Clients : RegistryRegister(c)
    \/ \E c \in Clients : \E f \in Arriving(c) : ReadMessage(c, f)
    \/ \E c \in Clients : CreateRoom(c)
    \/ \E c \in Clients : NotifyRoomJoined(c)
    \/ \E c \in Clients : ReadError(c)
    \/ \E c \in Clients : RegistryUnregister(c)
    \/ \E c \in Clients : CloseSend(c)
    \/ \E c \in Clients : WritePump(c)
    \/ \E c \in Clients : WritePumpClosed(c)
    \/ \E c \in Clients : \E k \in 0..SendCap : WritePumpError(c, k)
    \/ \E r \in Created : \E c \in Clients : RoomRegister(r, c)
    \/ \E r \in Created : \E d \in Clients : NotifyClientJoined(r, d)
    \/ \E r \in Created : \E c \in Clients : RoomUnregisterLeave(r, c)
    \/ \E r \in Created : \E c \in Clients : RoomUnregisterDisconnect(r, c)
    \/ \E r \in Created : \E c \in Clients : RoomBroadcast(r, c)
    \/ \E r \in Created : Subscribe(r)
    \/ \E r \in Created : SubscriptionReceive(r)
    \/ \E r \in Created : \E d \in Clients : BroadcastToClientsInRoom(r, d)

Spec == Init /\ [][Next]_vars

\* ------------------------------------------------------------- writePump's frames
\* A chat message of connection c for room r with the given text, as the
\* room publishes it.
ChatText(c, r, text) ==
    EncodeInbound([action |-> SendMessageAction, message |-> text,
                   target |-> RoomGetId(r), sender |-> User(c)])

\* The texts the peers type: any text is accepted, the delimiter included.
Texts == {<<"hi">>, <<"2", "*", "3">>}

\* The payloads the lobby's subscription can have fanned out with a and b
\* both members.
LobbyPayloads ==
    {JoinNotice(1, "b")} \cup {ChatText(c, 1, text) : c \in Clients, text \in Texts}

\* The contents of client.send when writePump takes its turn: up to
\* MaxBurst payloads.
Bursts == UNION {[1..n -> LobbyPayloads] : n \in 1..MaxBurst}

\* writePump on its own: both connections are members of the lobby, nothing
\* else is pending, and one of them has a burst of payloads queued.
WireInit ==
    /\ crashed = "no"
    /\ inbox = [c \in Clients |-> <<>>]
    /\ past = [c \in Clients |-> <<"connect", "join">>]
    /\ failing = {}
    /\ torn = [c \in Clients |-> NotTorn]
    /\ swsPc = [c \in Clients |-> "done"]
    /\ rpc = [c \in Clients |-> "read"]
    /\ cur = [c \in Clients |-> NoCur]
    /\ wpc = [c \in Clients |-> "run"]
    /\ rooms = <<[name |-> Lobby, private |-> FALSE]>>
    /\ \E c \in Clients : \E q \in Bursts :
           send = [d \in Clients |-> IF d = c THEN q ELSE <<>>]
    /\ sendClosed = [c \in Clients |-> FALSE]
    /\ clientRooms = [c \in Clients |-> {1}]
    /\ srvClients = Clients
    /\ roomClients = [r \in RoomIds |-> IF r = 1 THEN Clients ELSE {}]
    /\ loopPc = [r \in RoomIds |-> IF r = 1 THEN "select" ELSE "off"]
    /\ loopCur = [r \in RoomIds |-> NoLoopCur]
    /\ subPc = [r \in RoomIds |-> IF r = 1 THEN "recv" ELSE "off"]
    /\ subCur = [r \in RoomIds |-> NoSubCur]
    /\ topic = [r \in RoomIds |-> <<>>]
    /\ left = [r \in RoomIds |-> {}]
    /\ general = {}

WireNext == \E c \in Clients : WritePump(c)

WireSpec == WireInit /\ [][WireNext]_vars

\* The goroutines.  A goroutine that can take a step does take one: the Go
\* scheduler runs every runnable goroutine, a channel operation that is ready
\* completes, and a read on a closed socket returns.  What the peers do and
\* whether a socket write fails is left to the environment.
ReadPumpStep(c) ==
    \/ CreateRoom(c)
    \/ NotifyRoomJoined(c)
    \/ ConnClosed(c) /\ ReadError(c)
    \/ RegistryUnregister(c)
    \/ CloseSend(c)
    \/ \E r \in Created : \/ RoomRegister(r, c)
                           \/ RoomUnregisterLeave(r, c)
                           \/ RoomUnregisterDisconnect(r, c)
                           \/ RoomBroadcast(r, c)

WritePumpStep(c) == WritePump(c) \/ WritePumpClosed(c)

RunRoomStep(r) ==
    \E c \in Clients : \/ RoomRegister(r, c)
                        \/ NotifyClientJoined(r, c)
                        \/ RoomUnregisterLeave(r, c)
                        \/ RoomUnregisterDisconnect(r, c)
                        \/ RoomBroadcast(r, c)

SubscriptionStep(r) ==
    \/ Subscribe(r)
    \/ SubscriptionReceive(r)
    \/ \E d \in Clients : BroadcastToClientsInRoom(r, d)

Fairness ==
    /\ \A c \in Clients : WF_vars(RegistryRegister(c))
    /\ \A c \in Clients : WF_vars(ReadPumpStep(c))
    /\ \A c \in Clients : WF_vars(WritePumpStep(c))
    /\ \A r \in RoomIds : WF_vars(RunRoomStep(r))
    /\ \A r \in RoomIds : WF_vars(SubscriptionStep(r))

FairSpec == Spec /\ Fairness

\* ------------------------------------------------------------- claims
\* The payload of connection c's send-message "hi" for room r, as the room
\* publishes it.
ChatPayload(c, r) ==
    EncodeInbound([action |-> SendMessageAction, message |-> <<"hi">>,
                   target |-> RoomGetId(r), sender |-> User(c)])

Queued(d, p) == \E i \in 1..Len(send[d]) : send[d][i] = p

\* Connection c has submitted a send-message to the room r, of which c and d
\* are registered members and whose subscription is established (the
\* backplane delivers what is published from now on).
Submitted(c, r, d) ==
    /\ crashed = "no"
    /\ r \in Created
    /\ subPc[r] \in {"recv", "fanout"}
    /\ rpc[c] = "bcast"
    /\ cur[c].room = r
    /\ {c, d} \subseteq roomClients[r]

\* C1: a send-message submitted by a member c of a room is eventually queued,
\* with the same payload and c as the sender, for every member d of the room
\* (c itself included) that stays a member.
C1_Delivery ==
    \A c, d \in Clients : \A r \in RoomIds :
        Submitted(c, r, d) ~> (Queued(d, ChatPayload(c, r)) \/ d \notin roomClients[r])

C3_PrivateRoomSymmetric ==
    \A c, d \in Clients : \A r1 \in clientRooms[c], r2 \in clientRooms[d] :
        (c # d /\ rooms[r1].private /\ rooms[r2].private) => r1 = r2

\* The fan-out under way in room r delivers a payload that arrived after the
\* room processed the leave-room of connection c.
AfterLeave(r, c) ==
    /\ crashed = "no"
    /\ r \in Created
    /\ subPc[r] = "fanout"
    /\ c \in left[r] \ subCur[r].before

\* C4, first half: a payload that arrives after the room processed c's
\* leave-room is not enqueued for c: c is not among the connections its
\* fan-out sends to.
C4_LeaverExcluded ==
    \A r \in Created : \A c \in Clients : AfterLeave(r, c) => c \notin subCur[r].todo

\* C4: after the room processed c's leave-room, a payload that arrives is not
\* enqueued for c, and every connection d the fan-out has yet to send to gets
\* it (d leaves the fan-out's list by being sent to) unless d stops being a
\* member.
C4_LeaveKeepsOthers ==
    /\ [] C4_LeaverExcluded
    /\ \A r \in RoomIds : \A d \in Clients :
           ((\E c \in Clients : AfterLeave(r, c)) /\ d \in subCur[r].todo /\ d \in roomClients[r])
               ~> (d \notin subCur[r].todo \/ d \notin roomClients[r])

\* C5: once a connection's teardown has completed and the registry has
\* consumed the register sent by its upgrade handler, the connection is in no
\* room's membership and not in the registry's directory.
C5_GoneAfterDisconnect ==
    \A c \in Clients :
        (rpc[c] = "done" /\ swsPc[c] = "done" /\ crashed = "no") =>
            /\ c \notin srvClients
            /\ FindUserByID(GetId(c)) = {}
            /\ \A r \in Created : c \notin roomClients[r]

\* C6: a connection never has the notice of its own join on its outbound queue.
C6_NoOwnJoinNotice ==
    \A c \in Clients : \A r \in Created : \A i \in 1..Len(send[c]) :
        send[c][i] # JoinNotice(r, c)

\* C7: no room command loop is blocked enqueueing onto the full queue of a
\* connection whose outbound loop has returned while that connection's
\* teardown is blocked sending on the same room's unregister channel.
Stuck(d) == Len(send[d]) = SendCap /\ wpc[d] = "done" /\ ~sendClosed[d]

C7_NoDeadlock ==
    \A r \in Created : \A d \in Clients :
        ~ /\ crashed = "no"
          /\ loopPc[r] = "notify"
          /\ d \in loopCur[r].todo
          /\ \A e \in loopCur[r].todo : Stuck(e)
          /\ rpc[d] = "discRooms"
          /\ r \in cur[d].todo

\* C8: no payload is sent on a connection's outbound queue once it is closed
\* (in Go the send panics and the process ends).
C8_NoSendOnClosed == crashed # "send-on-closed"

\* C9: a frame that fails to decode, or whose action is outside the closed
\* set, is dropped: reading it sends no command, changes no membership and
\* leaves the connection reading.
KnownActions == {SendMessageAction, JoinRoomAction, LeaveRoomAction, JoinRoomPrivateAction}

Malformed(f) == Unmarshal(f).err \/ Unmarshal(f).msg.action \notin KnownActions

C9_BadFrameDropped ==
    [][\A c \in Clients : \A f \in Arriving(c) :
          (ReadMessage(c, f) /\ Malformed(f)) =>
              /\ rpc'[c] = "read"
              /\ UNCHANGED <<crashed, cur, clientRooms, srvClients, rooms, roomClients,
                             topic, general, send>>]_vars

\* C10: a join-room-private whose target id belongs to no connection attached
\* to this process changes nothing: no room is created, no membership and no
\* room set changes, nothing is queued for the requester, no invite is
\* published, and the connection reads on.
C10_UnknownTargetNoOp ==
    [][\A c \in Clients : \A f \in Arriving(c) :
          (/\ ReadMessage(c, f)
           /\ Unmarshal(f).msg.action = JoinRoomPrivateAction
           /\ FindUserByID(Unmarshal(f).msg.message) = {}) =>
              /\ rpc'[c] = "read"
              /\ UNCHANGED <<crashed, cur, clientRooms, srvClients, rooms, roomClients,
                             loopPc, topic, general, send>>]_vars

\* C10 witness: with another user attached, a connection has read its private
\* join for the unknown user and is reading on, with no room, nothing queued
\* and no invite.
C10_Witness ==
    \E c, d \in Clients :
        /\ c # d
        /\ d \in srvClients
        /\ past[c] = <<"connect", "private-unknown">>
        /\ rpc[c] = "read"
        /\ rooms = <<>>
        /\ send[c] = <<>>
        /\ general = {}

\* C11: a join-room whose name resolves to an existing room marked private is
\* rejected: the connection reads on, and no room set, no membership, no
\* queue and no room changes (nothing is registered, nothing is notified).
C11_PublicJoinOfPrivateRejected ==
    [][\A c \in Clients : \A f \in Arriving(c) :
          (/\ ReadMessage(c, f)
           /\ Unmarshal(f).msg.action = JoinRoomAction
           /\ FindRoomByName(Unmarshal(f).msg.message) # {}
           /\ \A r \in FindRoomByName(Unmarshal(f).msg.message) : rooms[r].private) =>
              /\ rpc'[c] = "read"
              /\ UNCHANGED <<crashed, cur, clientRooms, srvClients, rooms, roomClients,
                             loopPc, topic, general, send>>]_vars

\* C11 witness: a connection that is in no room has asked, by join-room, for
\* the private room another connection created, and is reading on.
C11_Witness ==
    \E c \in Clients :
        /\ past[c] = <<"connect", "join-private">>
        /\ rpc[c] = "read"
        /\ clientRooms[c] = {}
        /\ \E r \in Created : rooms[r].private /\ c \notin roomClients[r]

C13_NoConcurrentMembershipAccess ==
    [][\A r \in RoomIds : roomClients'[r] # roomClients[r] => subPc[r] # "fanout"]_vars

\* C14: a send-message whose target is absent, or is the id of no room of
\* the registry, is dropped: nothing is submitted to a room, nothing is
\* published, no state changes and the connection reads on.
C14_BadTargetDropped ==
    [][\A c \in Clients : \A f \in Arriving(c) :
          (/\ ReadMessage(c, f)
           /\ Unmarshal(f).msg.action = SendMessageAction
           /\ \/ Unmarshal(f).msg.target = NilTarget
              \/ FindRoomById(Unmarshal(f).msg.target) = {}) =>
              /\ rpc'[c] = "read"
              /\ UNCHANGED <<crashed, cur, clientRooms, srvClients, rooms, roomClients,
                             loopPc, topic, general, send>>]_vars

\* C15: once a connection's readPump has ended and disconnect has started,
\* the teardown completes (the registry and the rooms are signalled, the
\* queue is closed) and writePump has returned, as long as the process runs.
C15_TeardownCompletes ==
    \A c \in Clients :
        (rpc[c] = "disc") ~> ((rpc[c] = "done" /\ wpc[c] = "done") \/ crashed # "no")

\* C16: a connection's teardown runs at most once: its queue is closed at
\* most once (never a close of a closed channel), it is signalled to the
\* registry and to each room at most once, and when the teardown has
\* completed each of these has happened exactly once, for the registry and
\* for every room of the connection.
C16_TeardownOnce ==
    \A c \in Clients :
        /\ crashed # "close-of-closed"
        /\ torn[c].closes <= 1
        /\ torn[c].registry <= 1
        /\ \A r \in RoomIds : torn[c].rooms[r] <= 1
        /\ rpc[c] = "done" =>
              /\ torn[c].closes = 1
              /\ torn[c].registry = 1
              /\ \A r \in RoomIds : torn[c].rooms[r] = IF r \in clientRooms[c] THEN 1 ELSE 0

\* C16 witness: a connection that belonged to a room has been torn down.
C16_Witness ==
    \E c \in Clients :
        /\ crashed = "no"
        /\ rpc[c] = "done"
        /\ clientRooms[c] # {}
        /\ sendClosed[c]

\* C17: a join-room whose name resolves to a room the connection already
\* belongs to does nothing: no register is sent to the room, no room-joined
\* and no join notice is queued or published, and the connection's room set
\* and the room's membership stay as they are.
C17_JoinIdempotent ==
    [][\A c \in Clients : \A f \in Arriving(c) :
          (/\ ReadMessage(c, f)
           /\ Unmarshal(f).msg.action = JoinRoomAction
           /\ FindRoomByName(Unmarshal(f).msg.message) # {}
           /\ FindRoomByName(Unmarshal(f).msg.message) \subseteq clientRooms[c]) =>
              /\ rpc'[c] = "read"
              /\ UNCHANGED <<crashed, cur, clientRooms, srvClients, rooms, roomClients,
                             loopPc, topic, general, send>>]_vars

\* C17 witness: a member of the lobby has sent join-room for the lobby again
\* and is reading on, a member as before.
C17_Witness ==
    \E c \in Clients : \E r \in Created :
        /\ past[c] = <<"connect", "join", "join">>
        /\ rpc[c] = "read"
        /\ clientRooms[c] = {r}
        /\ c \in roomClients[r]

\* C18: a leave-room whose message is the name of a room the connection
\* belongs to takes the room out of the connection's room set and sends the
\* connection on that room's unregister intake, as a leave-room carrying the
\* room's id does.
C18_LeaveByName ==
    [][\A c \in Clients : \A f \in Arriving(c) : \A r \in Created :
          (/\ ReadMessage(c, f)
           /\ Unmarshal(f).msg.action = LeaveRoomAction
           /\ Unmarshal(f).msg.message = rooms[r].name
           /\ r \in clientRooms[c]) =>
              /\ r \notin clientRooms'[c]
              /\ rpc'[c] = "unreg"
              /\ cur'[c].room = r]_vars

\* C19: the message a connection hands to a room's broadcast intake, the
\* payload the room publishes for it, and every invite a connection publishes
\* on the general topic carry that connection's id and name as sender,
\* whatever the "sender" member of the frame was.
C19_SenderIsSubmitter ==
    [][\A c \in Clients :
          /\ \A f \in Arriving(c) :
                (ReadMessage(c, f) /\ rpc'[c] = "bcast") => cur'[c].msg.sender = User(c)
          /\ \A r \in RoomIds :
                RoomBroadcast(r, c) =>
                   \A q \in RoomIds :
                      topic'[q] # topic[q] => topic'[q][Len(topic'[q])].sender = User(c)
          /\ ((\E f \in Arriving(c) : ReadMessage(c, f)) \/ CreateRoom(c) \/ NotifyRoomJoined(c)) =>
                \A inv \in general' \ general : inv.sender = User(c)]_vars

\* C19 witness: a frame claiming another connection as sender has been read
\* and its message waits at the room's broadcast intake under the reader's
\* identity, and a private join claiming another sender has led to an invite.
C19_Witness ==
    \E c \in Clients : \E d \in Clients \ {c} :
        /\ past[c] = <<"connect", "join", "send-forged">>
        /\ rpc[c] = "bcast"
        /\ cur[c].msg.sender = User(c)
        /\ past[d] = <<"connect", "private-forged">>
        /\ \E inv \in general : inv.sender = User(d)

\* A register or unregister command is in flight: a connection is sending
\* itself on a room's register or unregister channel, or the room's loop has
\* received a register and is still in registerClientInRoom.
InFlight ==
    \/ \E c \in Clients : rpc[c] \in {"create", "reg", "unreg", "discRooms"}
    \/ \E r \in RoomIds : loopPc[r] = "notify"

\* The connection is attached and its teardown has not begun.
NotTornDown(c) == rpc[c] \in {"read", "bcast", "notify"}

\* C20: in a state with no register or unregister in flight, for every
\* connection whose teardown has not begun, a room is in the connection's
\* room set exactly when the connection is in the room's membership.
C20_MembershipAgreed ==
    ~InFlight =>
        \A c \in Clients : NotTornDown(c) =>
            \A r \in Created : (r \in clientRooms[c]) <=> (c \in roomClients[r])

\* C20 witness: a connection has joined and left the lobby and nothing is in
\* flight; it is in no room on either side, and another connection is a
\* member on both sides.
C20_Witness ==
    \E c \in Clients : \E d \in Clients \ {c} : \E r \in Created :
        /\ ~InFlight
        /\ past[c] = <<"connect", "join", "leave">>
        /\ NotTornDown(c) /\ NotTornDown(d)
        /\ clientRooms[c] = {} /\ c \notin roomClients[r]
        /\ r \in clientRooms[d] /\ d \in roomClients[r]

====
